---- MODULE Spec2Model ----
(***************************************************************************)
(* A model of IronDumbo's two agreement primitives: the Bracha-style       *)
(* reliable broadcast instance (reliable_broadcast.rs) and the asynchronous*)
(* binary agreement round and instance (async_bin_agreement*.rs).          *)
(*                                                                         *)
(* Each handler of the code is a pure operator over a record that holds    *)
(* the instance's fields; it returns the new record, the broadcasts it     *)
(* made and its result tag.  The specifications at the end drive these     *)
(* operators: one instance under arbitrary message sequences, and a group  *)
(* of N instances joined by an asynchronous network with F Byzantine       *)
(* members.                                                                *)
(***************************************************************************)
EXTENDS Integers, Sequences, FiniteSets, TLC

VARIABLES
    rbc,        \* one ReliableBroadcastInstance
    rbcSent,    \* what that instance broadcast, in order (the mock network)
    rn,         \* broadcast group: correct member -> its ReliableBroadcastInstance
    rbyz,       \* broadcast group: number of messages the Byzantine members have sent
    rdata,      \* one RoundData
    acoin,      \* round -> <<the bit its combined signature hashes to>>, <<>> until combined
    aba,        \* agreement group: correct member -> its AsyncBinaryAgreement
    asent,      \* agreement group: the messages the correct members have broadcast
    abyz,       \* agreement group: number of messages the Byzantine members have sent
    adec,       \* agreement group: correct member -> the values it returned Decided for
    inst,       \* one AsyncBinaryAgreement
    instSent,   \* the messages that instance broadcast (the mock network)
    epoch,      \* one DumboRound
    eres,       \* the EpochResult of that epoch's last process_message
    qargs,      \* the arguments (n, f, members) handed to QuorumInfo::new
    qres        \* what QuorumInfo::new and the tolerance functions made of them

rbcVars == <<rbc, rbcSent>>
rnetVars == <<rn, rbyz>>
anetVars == <<aba, asent, abyz, adec>>
abaVars == <<rdata, acoin, aba, asent, abyz, adec>>
instVars == <<inst, instSent>>
epochVars == <<epoch, eres>>
quorumVars == <<qargs, qres>>
otherVars == <<instVars, epochVars, quorumVars>>
vars == <<rbc, rbcSent, rn, rbyz, rdata, acoin, aba, asent, abyz, adec,
          inst, instSent, epoch, eres, qargs, qres>>

----------------------------------------------------------------------------
(* Parameters of the tests' quorum: N = 4 members, F = 1 of them faulty.   *)

N == 4
F == 1

\* Bounds of the model.
MaxPending == 2
MaxByz == 3
MaxAbaRound == 1
MaxAbaByz == 1
MaxInstRound == 2
MaxInstPending == 2
\* The largest n and f given to QuorumInfo::new and to the tolerance functions
MaxQuorumN == 7
MaxQuorumF == 2

Nodes == 0 .. (N - 1)
\* The faulty members are the last F ones; the others follow the code.
Byzantine == (N - F) .. (N - 1)
Correct == Nodes \ Byzantine

Payloads == {"p1", "p2"}
Digests == {"d1", "d2"}
\* The digest a correct sender attaches to a payload.
HashOf(p) == IF p = "p1" THEN "d1" ELSE "d2"

----------------------------------------------------------------------------
(* QuorumInfo                                                              *)

QuorumInfoNew(n, f, members) ==
    [f |-> f, quorum_size |-> n - f, quorum_members |-> members]

QuorumInfoValid(n, f) == n > 0 /\ f <= (n - 1) \div 3

TestQuorum == QuorumInfoNew(N, F, Nodes)

\* Dumbo::get_n_for_f
GetNForF(f) == 3 * f + 1

\* Dumbo::get_quorum_for_n
GetQuorumForN(n) == (n - 1) \div 2

\* Dumbo::get_f_for_n
GetFForN(n) == (n - 1) \div 3

\* What a call with the arguments under test gave: nothing yet, the
\* constructor's outcome (ok is FALSE when the assertion failed), or the three
\* tolerance constants.
NoQuorumResult ==
    [kind |-> "none", ok |-> FALSE, info |-> QuorumInfoNew(0, 0, {}),
     n |-> 0, quorum |-> 0, f |-> 0]

\* QuorumInfo::new with its assertion
QuorumNewResult(n, f, members) ==
    IF QuorumInfoValid(n, f)
    THEN [NoQuorumResult EXCEPT !.kind = "new", !.ok = TRUE,
                                !.info = QuorumInfoNew(n, f, members)]
    ELSE [NoQuorumResult EXCEPT !.kind = "new"]

\* n, the quorum and f, each computed from the one before
ToleranceResult(f) ==
    [NoQuorumResult EXCEPT !.kind = "tolerance", !.ok = TRUE,
                           !.n = GetNForF(f),
                           !.quorum = GetQuorumForN(GetNForF(f)),
                           !.f = GetFForN(GetNForF(f))]

----------------------------------------------------------------------------
(* Reliable broadcast messages: StoredMessage<ReliableBroadcastMessage>    *)
(* reduced to the header's sender and the message.                         *)

SendMsg(from, p, d) == [from |-> from, kind |-> "Send", payload |-> p, digest |-> d]
EchoMsg(from, d) == [from |-> from, kind |-> "Echo", payload |-> "none", digest |-> d]
ReadyMsg(from, d) == [from |-> from, kind |-> "Ready", payload |-> "none", digest |-> d]

RbcMsgsFrom(S) ==
    {SendMsg(n, p, d) : n \in S, p \in Payloads, d \in Digests}
        \cup {EchoMsg(n, d) : n \in S, d \in Digests}
        \cup {ReadyMsg(n, d) : n \in S, d \in Digests}

RbcMsgs == RbcMsgsFrom(Nodes)

----------------------------------------------------------------------------
(* ReliableBroadcastInstance                                               *)

RbcNew(sender, qi) ==
    [sender |-> sender,
     quorum_info |-> qi,
     proposed_messages |-> <<>>,          \* <<>> is None, <<[payload, digest]>> is Some
     received_echoes |-> {},
     received_readies |-> {},
     sent_echo |-> FALSE,
     sent_ready |-> FALSE,
     state |-> "Init",
     pending_echoes |-> <<>>,
     pending_readies |-> <<>>]

\* The guard comparing with any stored digest.
CurrentDigestAny(st, d) == st.proposed_messages # <<>>

\* get_current_digest() == Some(d)
CurrentDigestIs(st, d) ==
    st.proposed_messages # <<>> /\ st.proposed_messages[1].digest = d

\* The number of echoes that makes the instance broadcast Ready.
EchoThreshold(qi) == qi.quorum_size - qi.f

ReadyThresholdHalved(qi) == qi.f

\* The readies are enough once their number exceeds this.
ReadyThreshold(qi) == 2 * qi.f

\* PendingMessages::queue_message
QueueMessage(st, m) ==
    IF m.kind = "Echo"
    THEN [st EXCEPT !.pending_echoes = Append(@, m)]
    ELSE [st EXCEPT !.pending_readies = Append(@, m)]

\* The Send arm taken in every phase.
SendArmMatchesAnyPhase(st, m) ==
    m.kind = "Send"

\* The Send arm taken while the instance is in Init or Proposed.
SendArmMatchesUntilEchoed(st, m) ==
    m.kind = "Send" /\ st.state \in {"Init", "Proposed"}

\* The pattern of process_message's first arm.
SendArmMatches(st, m) ==
    m.kind = "Send" /\ st.proposed_messages = <<>> /\ st.state = "Init"

\* The first arm broadcasting its Echo twice.
SendArmEchoingTwice(st, m) ==
    [st |-> [st EXCEPT !.proposed_messages = <<[payload |-> m.payload, digest |-> m.digest]>>,
                       !.state = "Proposed"],
     out |-> <<[kind |-> "Echo", digest |-> m.digest],
               [kind |-> "Echo", digest |-> m.digest]>>,
     res |-> "Progressed"]

\* process_message, first arm: store the proposal and broadcast its Echo.
SendArm(st, m) ==
    [st |-> [st EXCEPT !.proposed_messages = <<[payload |-> m.payload, digest |-> m.digest]>>,
                       !.state = "Proposed"],
     out |-> <<[kind |-> "Echo", digest |-> m.digest]>>,
     res |-> "Progressed"]

EchoArmCountingArrivals(st, m) ==
    LET echoes == st.received_echoes \cup {m.from}
        enough == Cardinality(st.received_echoes) + 1 >= EchoThreshold(st.quorum_info)
                  /\ ~st.sent_echo
    IN  [st |-> [st EXCEPT !.received_echoes = echoes,
                           !.state = IF enough THEN "Echoed" ELSE @,
                           !.sent_echo = IF enough THEN TRUE ELSE @],
         out |-> IF enough THEN <<[kind |-> "Ready", digest |-> m.digest]>> ELSE <<>>,
         res |-> "Progressed"]

\* process_message, Echo arm: count the echo, broadcast Ready once enough.
EchoArm(st, m) ==
    LET echoes == st.received_echoes \cup {m.from}
        enough == Cardinality(echoes) >= EchoThreshold(st.quorum_info)
                  /\ ~st.sent_echo
    IN  [st |-> [st EXCEPT !.received_echoes = echoes,
                           !.state = IF enough THEN "Echoed" ELSE @,
                           !.sent_echo = IF enough THEN TRUE ELSE @],
         out |-> IF enough THEN <<[kind |-> "Ready", digest |-> m.digest]>> ELSE <<>>,
         res |-> "Progressed"]

\* process_message, Ready arm: count the ready, finalize once enough.
ReadyArm(st, m) ==
    LET readies == st.received_readies \cup {m.from}
        enough == Cardinality(readies) > ReadyThreshold(st.quorum_info)
                  /\ ~st.sent_ready
    IN  [st |-> [st EXCEPT !.received_readies = readies,
                           !.state = IF enough THEN "Ready" ELSE @,
                           !.sent_ready = IF enough THEN TRUE ELSE @],
         out |-> <<>>,
         res |-> IF enough THEN "Finalized" ELSE "Progressed"]

\* process_message: [st: the instance afterwards, out: the broadcasts, res: the result]
RbcProcess(st, m) ==
    IF SendArmMatches(st, m)
    THEN SendArm(st, m)
    ELSE IF m.kind = "Send"
    THEN [st |-> st, out |-> <<>>, res |-> "MessageIgnored"]
    ELSE IF m.kind = "Echo" /\ CurrentDigestIs(st, m.digest) /\ st.state = "Proposed"
    THEN EchoArm(st, m)
    ELSE IF m.kind = "Ready" /\ CurrentDigestIs(st, m.digest) /\ st.state = "Echoed"
    THEN ReadyArm(st, m)
    ELSE [st |-> QueueMessage(st, m), out |-> <<>>, res |-> "MessageQueued"]

\* has_pending
RbcHasPending(st) ==
    CASE st.state = "Proposed" -> st.pending_echoes # <<>>
      [] st.state = "Echoed" -> st.pending_readies # <<>>
      [] OTHER -> FALSE

RbcPollNewestFirst(st) ==
    CASE st.state = "Proposed" /\ st.pending_echoes # <<>> ->
            [st |-> [st EXCEPT !.pending_echoes = SubSeq(@, 1, Len(@) - 1)],
             msg |-> <<st.pending_echoes[Len(st.pending_echoes)]>>]
      [] st.state = "Echoed" /\ st.pending_readies # <<>> ->
            [st |-> [st EXCEPT !.pending_readies = SubSeq(@, 1, Len(@) - 1)],
             msg |-> <<st.pending_readies[Len(st.pending_readies)]>>]
      [] OTHER -> [st |-> st, msg |-> <<>>]

\* poll: [st: the instance afterwards, msg: <<>> for None, <<m>> for Some(m)]
RbcPoll(st) ==
    CASE st.state = "Proposed" /\ st.pending_echoes # <<>> ->
            [st |-> [st EXCEPT !.pending_echoes = Tail(@)], msg |-> <<Head(st.pending_echoes)>>]
      [] st.state = "Echoed" /\ st.pending_readies # <<>> ->
            [st |-> [st EXCEPT !.pending_readies = Tail(@)], msg |-> <<Head(st.pending_readies)>>]
      [] OTHER -> [st |-> st, msg |-> <<>>]

\* finalize allowed from Echoed on.
RbcFinalizeFromEchoed(st) ==
    IF st.state \in {"Echoed", "Ready"}
    THEN IF st.proposed_messages # <<>>
         THEN [ok |-> TRUE, value |-> st.proposed_messages[1], err |-> "none"]
         ELSE [ok |-> FALSE, value |-> [payload |-> "none", digest |-> "none"],
               err |-> "NoProposedMessages"]
    ELSE [ok |-> FALSE, value |-> [payload |-> "none", digest |-> "none"],
          err |-> "NotReadyToFinalize"]

\* finalize: the stored (payload, digest), or the error
RbcFinalize(st) ==
    IF st.state = "Ready"
    THEN IF st.proposed_messages # <<>>
         THEN [ok |-> TRUE, value |-> st.proposed_messages[1], err |-> "none"]
         ELSE [ok |-> FALSE, value |-> [payload |-> "none", digest |-> "none"],
               err |-> "NoProposedMessages"]
    ELSE [ok |-> FALSE, value |-> [payload |-> "none", digest |-> "none"],
          err |-> "NotReadyToFinalize"]

PendingLen(st) == Len(st.pending_echoes) + Len(st.pending_readies)

\* The owner's loop "while let Some(m) = poll()": the messages it gets, in order.
RECURSIVE RbcDrain(_)
RbcDrain(st) ==
    IF RbcPoll(st).msg = <<>>
    THEN <<>>
    ELSE RbcPoll(st).msg \o RbcDrain(RbcPoll(st).st)

----------------------------------------------------------------------------
(* RoundData: one round of the asynchronous binary agreement.              *)
(* A vote-acceptance result is [tag, val]: val is the bool or the list the *)
(* result carries, "none" when it carries nothing.                         *)

\* The lists of bools an Aux or a Conf can carry.
BoolLists == {<<>>, <<FALSE>>, <<TRUE>>, <<FALSE, TRUE>>, <<TRUE, FALSE>>}

\* vec.into_iter().collect::<HashSet<_>>()
ToSet(list) == {list[i] : i \in 1 .. Len(list)}

\* set.into_iter().collect::<Vec<_>>(); the order of two elements is the
\* HashSet's, but values_r never holds more than one.
ToList(set) ==
    IF set = {} THEN <<>>
    ELSE IF set = {FALSE} THEN <<FALSE>>
    ELSE IF set = {TRUE} THEN <<TRUE>>
    ELSE <<FALSE, TRUE>>

\* The order of AsyncBinaryAgreementState
RoundPhase(state) ==
    CASE state = "CollectingVal" -> 0
      [] state = "CollectingAux" -> 1
      [] state = "CollectingConf" -> 2
      [] state = "Finishing" -> 3

Result(tag, val) == [tag |-> tag, val |-> val]

\* RoundData::new
RoundNew(f, estimate) ==
    [state |-> "CollectingVal",
     f |-> f,
     estimate |-> estimate,
     values_r |-> {},
     received_vals |-> [b \in BOOLEAN |-> {}],
     broadcast_estimates |-> {},
     received_aux |-> [l \in BoolLists |-> {}],
     received_conf |-> [l \in BoolLists |-> {}],   \* sets of [from, sig]
     received_finish |-> [b \in BOOLEAN |-> {}],
     broadcast_finish |-> {}]

\* insert_estimate without the check of the sender's earlier vote.
InsertEstimateRepeated(rd, sender, estimate) ==
    LET votes == rd.received_vals[estimate] \cup {sender}
        rd1 == [rd EXCEPT !.received_vals[estimate] = votes]
    IN  IF Cardinality(votes) >= 2 * rd.f + 1
        THEN LET rd2 == [rd1 EXCEPT !.values_r = @ \cup {estimate},
                                    !.state = "CollectingAux"]
             IN  [rd |-> rd2, res |-> Result("BroadcastAux", ToList(rd2.values_r))]
        ELSE IF Cardinality(votes) >= rd.f + 1 /\ estimate \notin rd.broadcast_estimates
        THEN [rd |-> [rd1 EXCEPT !.broadcast_estimates = @ \cup {estimate}],
              res |-> Result("BroadcastEst", estimate)]
        ELSE [rd |-> rd1, res |-> Result("Accepted", "none")]

\* insert_estimate relaying a value on f Val messages instead of f+1.
InsertEstimateRelayAtF(rd, sender, estimate) ==
    IF sender \in rd.received_vals[estimate]
    THEN [rd |-> rd, res |-> Result("AlreadyAccepted", "none")]
    ELSE LET votes == rd.received_vals[estimate] \cup {sender}
             rd1 == [rd EXCEPT !.received_vals[estimate] = votes]
         IN  IF Cardinality(votes) >= 2 * rd.f + 1
             THEN LET rd2 == [rd1 EXCEPT !.values_r = @ \cup {estimate},
                                         !.state = "CollectingAux"]
                  IN  [rd |-> rd2, res |-> Result("BroadcastAux", ToList(rd2.values_r))]
             ELSE IF Cardinality(votes) >= rd.f /\ estimate \notin rd.broadcast_estimates
             THEN [rd |-> [rd1 EXCEPT !.broadcast_estimates = @ \cup {estimate}],
                   res |-> Result("BroadcastEst", estimate)]
             ELSE [rd |-> rd1, res |-> Result("Accepted", "none")]

\* RoundData::insert_estimate with ValRoundData::insert_estimate
InsertEstimate(rd, sender, estimate) ==
    IF sender \in rd.received_vals[estimate]
    THEN [rd |-> rd, res |-> Result("AlreadyAccepted", "none")]
    ELSE LET votes == rd.received_vals[estimate] \cup {sender}
             rd1 == [rd EXCEPT !.received_vals[estimate] = votes]
         IN  IF Cardinality(votes) >= 2 * rd.f + 1
             THEN LET rd2 == [rd1 EXCEPT !.values_r = @ \cup {estimate},
                                         !.state = "CollectingAux"]
                  IN  [rd |-> rd2, res |-> Result("BroadcastAux", ToList(rd2.values_r))]
             ELSE IF Cardinality(votes) >= rd.f + 1 /\ estimate \notin rd.broadcast_estimates
             THEN [rd |-> [rd1 EXCEPT !.broadcast_estimates = @ \cup {estimate}],
                   res |-> Result("BroadcastEst", estimate)]
             ELSE [rd |-> rd1, res |-> Result("Accepted", "none")]

\* accept_estimate counting a Val in every phase.
AcceptEstimateAnyPhase(rd, sender, estimate) ==
    InsertEstimate(rd, sender, estimate)

\* RoundData::accept_estimate
AcceptEstimate(rd, sender, estimate) ==
    IF rd.state = "CollectingVal"
    THEN InsertEstimate(rd, sender, estimate)
    ELSE [rd |-> rd, res |-> Result("Ignored", "none")]

\* insert_aux advancing on 2f+1 senders of any list, in values_r or not.
InsertAuxAnySet(rd, sender, accepted_estimates) ==
    IF sender \in rd.received_aux[accepted_estimates]
    THEN [rd |-> rd, res |-> Result("AlreadyAccepted", "none")]
    ELSE LET votes == rd.received_aux[accepted_estimates] \cup {sender}
             rd1 == [rd EXCEPT !.received_aux[accepted_estimates] = votes]
         IN  IF Cardinality(votes) >= 2 * rd.f + 1
             THEN [rd |-> [rd1 EXCEPT !.state = "CollectingConf"],
                   res |-> Result("BroadcastConf", ToList(rd.values_r))]
             ELSE [rd |-> rd1, res |-> Result("Accepted", "none")]

\* RoundData::insert_aux with AuxRoundData::insert_aux
InsertAux(rd, sender, accepted_estimates) ==
    IF sender \in rd.received_aux[accepted_estimates]
    THEN [rd |-> rd, res |-> Result("AlreadyAccepted", "none")]
    ELSE LET votes == rd.received_aux[accepted_estimates] \cup {sender}
             rd1 == [rd EXCEPT !.received_aux[accepted_estimates] = votes]
         IN  IF Cardinality(votes) >= 2 * rd.f + 1
                /\ ToSet(accepted_estimates) \subseteq rd.values_r
             THEN [rd |-> [rd1 EXCEPT !.state = "CollectingConf"],
                   res |-> Result("BroadcastConf", ToList(rd.values_r))]
             ELSE [rd |-> rd1, res |-> Result("Accepted", "none")]

\* accept_auxiliary counting an Aux already in CollectingVal.
AcceptAuxiliaryEarly(rd, sender, accepted_estimates) ==
    CASE rd.state \in {"CollectingVal", "CollectingAux"} ->
            InsertAux(rd, sender, accepted_estimates)
      [] OTHER -> [rd |-> rd, res |-> Result("Ignored", "none")]

\* RoundData::accept_auxiliary
AcceptAuxiliary(rd, sender, accepted_estimates) ==
    CASE rd.state = "CollectingAux" -> InsertAux(rd, sender, accepted_estimates)
      [] rd.state = "CollectingVal" -> [rd |-> rd, res |-> Result("Queue", "none")]
      [] OTHER -> [rd |-> rd, res |-> Result("Ignored", "none")]

\* The partial signatures of a Conf: "ok" is the sender's valid share over the
\* round's coin message, "bad" is anything else.
Sigs == {"ok", "bad"}

\* What combine_signatures and the hash yield: Ok with the coin's bit, or an
\* error.
Flip(bit) == [ok |-> TRUE, bit |-> bit]
FlipErr == [ok |-> FALSE, bit |-> FALSE]

\* The outcomes for a set of shares: the round's coin when every share is
\* valid; with a share that is not, the combination is not determined (any
\* bit, or CombineSignatureError).
CoinOutcomes(shares, coin) ==
    IF \A s \in shares : s.sig = "ok"
    THEN {Flip(coin)}
    ELSE {FlipErr, Flip(FALSE), Flip(TRUE)}

\* perform_coin_flip sending the round back to CollectingVal when the shares
\* do not combine.
PerformCoinFlipErrorResets(rd, winning_set, flip) ==
    IF ~flip.ok
    THEN [rd |-> [rd EXCEPT !.state = "CollectingVal"],
          res |-> Result("Failed", rd.estimate)]
    ELSE IF Len(winning_set) # 1
    THEN [rd |-> rd, res |-> Result("Failed", flip.bit)]
    ELSE IF winning_set[1] = flip.bit
    THEN LET rd1 == [rd EXCEPT !.state = "Finishing", !.estimate = flip.bit]
         IN  IF flip.bit \notin rd.broadcast_finish
             THEN [rd |-> [rd1 EXCEPT !.broadcast_finish = @ \cup {flip.bit}],
                   res |-> Result("BroadcastFinalized", flip.bit)]
             ELSE [rd |-> rd1, res |-> Result("Accepted", "none")]
    ELSE [rd |-> rd, res |-> Result("Failed", winning_set[1])]

\* perform_coin_flip entering Finishing with the coin whatever the winning
\* value is.
PerformCoinFlipAnyValue(rd, winning_set, flip) ==
    IF ~flip.ok
    THEN [rd |-> rd, res |-> Result("Failed", rd.estimate)]
    ELSE IF Len(winning_set) # 1
    THEN [rd |-> rd, res |-> Result("Failed", flip.bit)]
    ELSE LET rd1 == [rd EXCEPT !.state = "Finishing", !.estimate = flip.bit]
         IN  IF flip.bit \notin rd.broadcast_finish
             THEN [rd |-> [rd1 EXCEPT !.broadcast_finish = @ \cup {flip.bit}],
                   res |-> Result("BroadcastFinalized", flip.bit)]
             ELSE [rd |-> rd1, res |-> Result("Accepted", "none")]

\* RoundData::perform_coin_flip, with flip the outcome of combining and
\* hashing (an error is mapped to Failed(estimate) by the caller)
PerformCoinFlip(rd, winning_set, flip) ==
    IF ~flip.ok
    THEN [rd |-> rd, res |-> Result("Failed", rd.estimate)]
    ELSE IF Len(winning_set) # 1
    THEN [rd |-> rd, res |-> Result("Failed", flip.bit)]
    ELSE IF winning_set[1] = flip.bit
    THEN LET rd1 == [rd EXCEPT !.state = "Finishing", !.estimate = flip.bit]
         IN  IF flip.bit \notin rd.broadcast_finish
             THEN [rd |-> [rd1 EXCEPT !.broadcast_finish = @ \cup {flip.bit}],
                   res |-> Result("BroadcastFinalized", flip.bit)]
             ELSE [rd |-> rd1, res |-> Result("Accepted", "none")]
    ELSE [rd |-> rd, res |-> Result("Failed", winning_set[1])]

\* The shares recorded for feasible_values once this Conf is inserted.
SharesWith(rd, sender, feasible_values, sig) ==
    rd.received_conf[feasible_values] \cup {[from |-> sender, sig |-> sig]}

\* The condition without the comparison with values_r.
CoinFlipDueAnySet(rd, sender, feasible_values, sig) ==
    Cardinality(SharesWith(rd, sender, feasible_values, sig)) >= 2 * rd.f + 1

\* insert_confirmation's condition for combining the shares
CoinFlipDue(rd, sender, feasible_values, sig) ==
    /\ Cardinality(SharesWith(rd, sender, feasible_values, sig)) >= 2 * rd.f + 1
    /\ ToSet(feasible_values) \subseteq rd.values_r

\* RoundData::insert_confirmation with ConfRoundData::insert_confirmation
InsertConfirmation(rd, sender, feasible_values, sig, flip) ==
    IF \E c \in rd.received_conf[feasible_values] : c.from = sender
    THEN [rd |-> rd, res |-> Result("AlreadyAccepted", "none")]
    ELSE LET rd1 == [rd EXCEPT !.received_conf[feasible_values] =
                                  SharesWith(rd, sender, feasible_values, sig)]
         IN  IF CoinFlipDue(rd, sender, feasible_values, sig)
             THEN PerformCoinFlip(rd1, feasible_values, flip)
             ELSE [rd |-> rd1, res |-> Result("Accepted", "none")]

\* RoundData::accept_confirmation
AcceptConfirmation(rd, sender, feasible_values, sig, flip) ==
    CASE rd.state = "CollectingConf" ->
            InsertConfirmation(rd, sender, feasible_values, sig, flip)
      [] rd.state \in {"CollectingVal", "CollectingAux"} ->
            [rd |-> rd, res |-> Result("Queue", "none")]
      [] OTHER -> [rd |-> rd, res |-> Result("Ignored", "none")]

\* insert_finish deciding on f Finish messages instead of 2f+1.
InsertFinishAtF(rd, sender, final_value) ==
    IF sender \in rd.received_finish[final_value]
    THEN [rd |-> rd, res |-> Result("AlreadyAccepted", "none")]
    ELSE LET votes == rd.received_finish[final_value] \cup {sender}
             rd1 == [rd EXCEPT !.received_finish[final_value] = votes]
         IN  IF Cardinality(votes) >= rd.f
             THEN [rd |-> rd1, res |-> Result("Finalized", final_value)]
             ELSE IF Cardinality(votes) >= rd.f + 1
                     /\ final_value \notin rd.broadcast_finish
             THEN [rd |-> [rd1 EXCEPT !.broadcast_finish = @ \cup {final_value}],
                   res |-> Result("BroadcastFinalized", final_value)]
             ELSE [rd |-> rd1, res |-> Result("Accepted", "none")]

\* insert_finish relaying on f+1 Finish messages whether or not the value
\* was already broadcast.
InsertFinishRelayRepeated(rd, sender, final_value) ==
    IF sender \in rd.received_finish[final_value]
    THEN [rd |-> rd, res |-> Result("AlreadyAccepted", "none")]
    ELSE LET votes == rd.received_finish[final_value] \cup {sender}
             rd1 == [rd EXCEPT !.received_finish[final_value] = votes]
         IN  IF Cardinality(votes) >= 2 * rd.f + 1
             THEN [rd |-> rd1, res |-> Result("Finalized", final_value)]
             ELSE IF Cardinality(votes) >= rd.f + 1
             THEN [rd |-> [rd1 EXCEPT !.broadcast_finish = @ \cup {final_value}],
                   res |-> Result("BroadcastFinalized", final_value)]
             ELSE [rd |-> rd1, res |-> Result("Accepted", "none")]

\* RoundData::insert_finish with FinishRoundData::insert_finish
InsertFinish(rd, sender, final_value) ==
    IF sender \in rd.received_finish[final_value]
    THEN [rd |-> rd, res |-> Result("AlreadyAccepted", "none")]
    ELSE LET votes == rd.received_finish[final_value] \cup {sender}
             rd1 == [rd EXCEPT !.received_finish[final_value] = votes]
         IN  IF Cardinality(votes) >= 2 * rd.f + 1
             THEN [rd |-> rd1, res |-> Result("Finalized", final_value)]
             ELSE IF Cardinality(votes) >= rd.f + 1
                     /\ final_value \notin rd.broadcast_finish
             THEN [rd |-> [rd1 EXCEPT !.broadcast_finish = @ \cup {final_value}],
                   res |-> Result("BroadcastFinalized", final_value)]
             ELSE [rd |-> rd1, res |-> Result("Accepted", "none")]

\* RoundData::accept_finish
AcceptFinish(rd, sender, final_value) ==
    IF rd.state = "Finishing"
    THEN InsertFinish(rd, sender, final_value)
    ELSE [rd |-> rd, res |-> Result("Queue", "none")]

----------------------------------------------------------------------------
(* AsyncBinaryAgreement: the instance that drives the rounds.  A message   *)
(* is the header's sender with the round, the type and what the type       *)
(* carries: bit is the bool of a Val or a Finish, vals the list of an Aux  *)
(* or a Conf, sig the partial signature of a Conf; a field the type does   *)
(* not carry is FALSE, <<>> or "none".                                     *)

Rounds == 0 .. MaxAbaRound

AbaMsg(from, round, type, bit, vals, sig) ==
    [from |-> from, round |-> round, type |-> type, bit |-> bit, vals |-> vals, sig |-> sig]

ValMsg(from, round, estimate) == AbaMsg(from, round, "Val", estimate, <<>>, "none")
AuxMsg(from, round, accepted_estimates) ==
    AbaMsg(from, round, "Aux", FALSE, accepted_estimates, "none")
ConfMsg(from, round, feasible_values, partial_signature) ==
    AbaMsg(from, round, "Conf", FALSE, feasible_values, partial_signature)
FinishMsg(from, round, final_value) ==
    AbaMsg(from, round, "Finish", final_value, <<>>, "none")

\* PendingMessages::default
PendingNew == [current_round_base |-> 0, per_round_messages |-> <<>>]

\* PendingMessages::add_message
AddMessage(p, round, m) ==
    IF round < p.current_round_base
    THEN p
    ELSE LET round_index == round - p.current_round_base
             have == Len(p.per_round_messages)
             grown == [i \in 1 .. (IF have <= round_index THEN round_index + 1 ELSE have) |->
                          IF i <= have THEN p.per_round_messages[i] ELSE <<>>]
         IN  [p EXCEPT !.per_round_messages =
                          [grown EXCEPT ![round_index + 1] = Append(@, m)]]

\* AsyncBinaryAgreement::new
AbaNew(input_bit, qi) ==
    [round |-> 0,
     input_bit |-> input_bit,
     quorum_info |-> qi,
     current_round |-> RoundNew(qi.f, input_bit),
     previous_rounds |-> <<>>,
     pending_messages |-> PendingNew]

\* advance_round that does not keep the round it replaces.
AdvanceRoundDroppingOld(st, next_estimate) ==
    [st EXCEPT !.current_round = RoundNew(st.quorum_info.f, next_estimate),
               !.round = @ + 1]

\* advance_round keeping the votes of the round that failed.
AdvanceRoundKeepingVotes(st, next_estimate) ==
    [st EXCEPT !.current_round.estimate = next_estimate,
               !.round = @ + 1]

\* AsyncBinaryAgreement::advance_round
AdvanceRound(st, next_estimate) ==
    [st EXCEPT !.current_round = RoundNew(st.quorum_info.f, next_estimate),
               !.previous_rounds = Append(@, st.current_round),
               !.round = @ + 1]

\* calculate_threshold_signature_for_round: the member's own valid share
OwnShare == "ok"

\* The handlers return the instance, the set of messages it broadcast to the
\* quorum members (the network fills in the header's sender) and the result's tag; a Processed or
\* Decided result carries the message that was processed.
AbaOut(st, out, res) == [st |-> st, out |-> out, res |-> res]

\* AsyncBinaryAgreement::process_val_message
ProcessValMessage(st, m) ==
    LET r == AcceptEstimate(st.current_round, m.from, m.bit)
        st1 == [st EXCEPT !.current_round = r.rd]
        tag == r.res.tag
    IN  CASE tag = "Accepted" -> AbaOut(st1, {}, "Processed")
          [] tag = "Failed" ->
                AbaOut(AdvanceRound(st1, r.res.val), {}, "MessageIgnored")
          [] tag = "Finalized" -> AbaOut(st1, {}, "Decided")
          [] tag = "BroadcastEst" ->
                AbaOut(st1, {ValMsg(0, st.round, r.res.val)}, "Processed")
          [] tag = "BroadcastAux" ->
                AbaOut(st1, {AuxMsg(0, st.round, r.res.val)}, "Processed")
          [] tag = "Queue" ->
                AbaOut([st1 EXCEPT !.pending_messages = AddMessage(@, st.round, m)],
                       {}, "MessageQueued")
          [] OTHER -> AbaOut(st1, {}, "MessageIgnored")

\* AsyncBinaryAgreement::process_aux_message
ProcessAuxMessage(st, m) ==
    LET r == AcceptAuxiliary(st.current_round, m.from, m.vals)
        st1 == [st EXCEPT !.current_round = r.rd]
        tag == r.res.tag
    IN  CASE tag = "Accepted" -> AbaOut(st1, {}, "Processed")
          [] tag = "Failed" ->
                AbaOut(AdvanceRound(st1, r.res.val), {}, "MessageIgnored")
          [] tag = "BroadcastConf" ->
                AbaOut(st1, {ConfMsg(0, st.round, r.res.val, OwnShare)}, "Processed")
          [] tag = "Finalized" -> AbaOut(st1, {}, "Decided")
          [] tag = "Queue" ->
                AbaOut([st1 EXCEPT !.pending_messages = AddMessage(@, st.round, m)],
                       {}, "MessageQueued")
          [] OTHER -> AbaOut(st1, {}, "MessageIgnored")

\* What process does with a round's result where the source leaves the
\* handler open (spec.md 4.5): Failed advances the round and the message is
\* Processed, Broadcast* emits the message type and is Processed,
\* Finalized(v) is Decided(v), the rest maps directly.
MapRoundResult(st, r, m) ==
    LET st1 == [st EXCEPT !.current_round = r.rd]
        tag == r.res.tag
    IN  CASE tag = "Accepted" -> AbaOut(st1, {}, "Processed")
          [] tag = "Failed" -> AbaOut(AdvanceRound(st1, r.res.val), {}, "Processed")
          [] tag = "BroadcastFinalized" ->
                AbaOut(st1, {FinishMsg(0, st.round, r.res.val)}, "Processed")
          [] tag = "Finalized" -> AbaOut(st1, {}, "Decided")
          [] tag = "Queue" ->
                AbaOut([st1 EXCEPT !.pending_messages = AddMessage(@, st.round, m)],
                       {}, "MessageQueued")
          [] OTHER -> AbaOut(st1, {}, "MessageIgnored")

\* AsyncBinaryAgreement::process_conf_message
ProcessConfMessage(st, m, flip) ==
    MapRoundResult(st, AcceptConfirmation(st.current_round, m.from, m.vals, m.sig, flip), m)

\* AsyncBinaryAgreement::process_finish_message
ProcessFinishMessage(st, m) ==
    MapRoundResult(st, AcceptFinish(st.current_round, m.from, m.bit), m)

\* process_message buffering the messages of earlier rounds as well.
AbaProcessBufferingPast(st, m, flip) ==
    IF m.round # st.round
    THEN AbaOut([st EXCEPT !.pending_messages = AddMessage(@, m.round, m)],
                {}, "MessageQueued")
    ELSE CASE m.type = "Val" -> ProcessValMessage(st, m)
           [] m.type = "Aux" -> ProcessAuxMessage(st, m)
           [] m.type = "Conf" -> ProcessConfMessage(st, m, flip)
           [] m.type = "Finish" -> ProcessFinishMessage(st, m)

\* AsyncBinaryAgreement::process_message; flip is what combining the shares
\* yields should this message complete a Conf quorum.
AbaProcess(st, m, flip) ==
    IF m.round > st.round
    THEN AbaOut([st EXCEPT !.pending_messages = AddMessage(@, m.round, m)],
                {}, "MessageQueued")
    ELSE IF m.round < st.round
    THEN AbaOut(st, {}, "MessageIgnored")
    ELSE CASE m.type = "Val" -> ProcessValMessage(st, m)
           [] m.type = "Aux" -> ProcessAuxMessage(st, m)
           [] m.type = "Conf" -> ProcessConfMessage(st, m, flip)
           [] m.type = "Finish" -> ProcessFinishMessage(st, m)


\* pop_message taking from the front bucket without discarding the buckets
\* of the rounds before the requested one.
PopMessageNoDrain(p, round) ==
    IF p.per_round_messages = <<>> \/ Len(p.per_round_messages[1]) = 0
    THEN [p |-> p, msg |-> <<>>, panic |-> FALSE]
    ELSE [p |-> [p EXCEPT !.per_round_messages[1] = SubSeq(@, 1, Len(@) - 1)],
          msg |-> <<p.per_round_messages[1][Len(p.per_round_messages[1])]>>,
          panic |-> FALSE]

\* PendingMessages::pop_message: [p: the buffer afterwards, msg: <<>> for
\* None, <<m>> for Some(m), panic: drain(0..rounds_to_skip) was out of range]
PopMessage(p, round) ==
    LET rounds_to_skip == IF round > p.current_round_base
                          THEN round - p.current_round_base
                          ELSE 0
        have == Len(p.per_round_messages)
    IN  IF rounds_to_skip > have
        THEN [p |-> p, msg |-> <<>>, panic |-> TRUE]
        ELSE LET rest == SubSeq(p.per_round_messages, rounds_to_skip + 1, have)
                 p1 == [current_round_base |->
                            IF round > p.current_round_base THEN round
                            ELSE p.current_round_base,
                        per_round_messages |-> rest]
             IN  IF rest = <<>> \/ Len(rest[1]) = 0
                 THEN [p |-> p1, msg |-> <<>>, panic |-> FALSE]
                 ELSE [p |-> [p1 EXCEPT !.per_round_messages[1] =
                                           SubSeq(@, 1, Len(@) - 1)],
                       msg |-> <<rest[1][Len(rest[1])]>>,
                       panic |-> FALSE]

\* AsyncBinaryAgreement::poll (spec.md 4.5): delegates to the pending buffer
\* with the instance's round.
AbaPoll(st) ==
    LET r == PopMessage(st.pending_messages, st.round)
    IN  [st |-> [st EXCEPT !.pending_messages = r.p], msg |-> r.msg, panic |-> r.panic]

----------------------------------------------------------------------------
(* DumboRound: one epoch.  The committee election, the broadcasts and the  *)
(* agreements are type parameters of the epoch (traits); what a call of    *)
(* one of them answers is an input of the epoch's handler.  A node's state *)
(* is [kind, exec, state]: the NodeState variant, the variant of its       *)
(* execution enum and the variant of its value slot.                       *)

\* DumboMessageType, with the header's sender; a CommitteeElectionMessage
\* has no owner (0 here).
EpochMsg(type, owner, from) == [type |-> type, owner |-> owner, from |-> from]

\* CommitteeState
RunningCE == [state |-> "RunningCE", committee |-> {}]
Completed(committee) == [state |-> "Completed", committee |-> committee]

\* DumboRound::new
EpochNew(node_id, quorum_info) ==
    [node_id |-> node_id,
     node_states |-> <<>>,
     local_state |-> "WaitingForCommittee",
     committee_election |-> RunningCE,
     quorum_info |-> quorum_info]

\* What process_message returns: the epoch afterwards and the EpochResult,
\* "Err" for an error of a sub-protocol passed on by ?, "Panic" for todo!()
\* and for a failed state transition.
EpochOut(ep, res) == [ep |-> ep, res |-> res]

\* The answers of a sub-protocol's process_message; "Err" is its error.
CeResults == {"MessageQueued", "MessageIgnored", "Processed", "Decided", "Err"}
RbcResults == {"MessageQueued", "MessageIgnored", "Processed", "Finalized"}
AbaResults == {"MessageQueued", "MessageIgnored", "Processed", "Decided", "Err"}

\* What finalize() of the committee election gives: a committee of f + 1
\* members, or its error (<<>> here).
Committees == {S \in SUBSET Nodes : Cardinality(S) = F + 1}
CeFinalized == {<<c>> : c \in Committees} \cup {<<>>}

\* Whether process_message hands message m, with a network handle, to a
\* sub-protocol; the epoch itself sends nothing.
EpochCalls(ep, m) ==
    CASE m.type = "CommitteeElectionMessage" ->
            ep.committee_election.state = "RunningCE"
      [] m.type = "ReliableBroadcast" ->
            /\ m.owner \in DOMAIN ep.node_states
            /\ ep.node_states[m.owner].exec = "RunningValueRBC"
      [] m.type = "AsyncBinaryAgreement" ->
            /\ m.owner \in DOMAIN ep.node_states
            /\ ep.node_states[m.owner].kind = "CommitteeNode"
            /\ ep.node_states[m.owner].exec = "RunningABA"
      [] OTHER -> FALSE

\* The CommitteeElectionMessage arm handing the message to the election
\* after the committee is complete as before.
CeArmRerunning(ep, sub, fin) ==
    CASE sub = "Err" -> EpochOut(ep, "Err")
      [] sub = "MessageQueued" -> EpochOut(ep, "MessageQueued")
      [] sub = "MessageIgnored" -> EpochOut(ep, "MessageIgnored")
      [] sub = "Processed" -> EpochOut(ep, "MessageProcessed")
      [] sub = "Decided" ->
           IF fin = <<>>
           THEN EpochOut(ep, "Err")
           ELSE EpochOut([ep EXCEPT !.committee_election = Completed(fin[1])],
                         "MessageProcessed")

\* process_message, CommitteeElectionMessage arm; sub is the election's
\* answer and fin what its finalize() gives.
CeArm(ep, sub, fin) ==
    IF ep.committee_election.state = "Completed"
    THEN EpochOut(ep, "MessageIgnored")
    ELSE CASE sub = "Err" -> EpochOut(ep, "Err")
           [] sub = "MessageQueued" -> EpochOut(ep, "MessageQueued")
           [] sub = "MessageIgnored" -> EpochOut(ep, "MessageIgnored")
           [] sub = "Processed" -> EpochOut(ep, "MessageProcessed")
           [] sub = "Decided" ->
                IF fin = <<>>
                THEN EpochOut(ep, "Err")
                ELSE EpochOut([ep EXCEPT !.committee_election = Completed(fin[1])],
                              "MessageProcessed")

\* process_message, ReliableBroadcast(owner, m) arm; sub is the answer of
\* the owner's value broadcast.
RbcArm(ep, owner, sub) ==
    IF owner \notin DOMAIN ep.node_states
    THEN EpochOut(ep, "MessageIgnored")
    ELSE LET ns == ep.node_states[owner]
         IN  IF ns.exec # "RunningValueRBC"
             THEN EpochOut(ep, "MessageIgnored")
             ELSE CASE sub = "MessageQueued" -> EpochOut(ep, "MessageQueued")
                    [] sub = "MessageIgnored" -> EpochOut(ep, "MessageIgnored")
                    [] sub = "Processed" -> EpochOut(ep, "MessageProcessed")
                    [] sub = "Finalized" ->
                         EpochOut([ep EXCEPT !.node_states[owner] =
                                       [kind |-> ns.kind,
                                        exec |-> IF ns.kind = "CommitteeNode"
                                                 THEN "WaitingForRBCs"
                                                 ELSE "Completed",
                                        state |-> "ValueRBC"]],
                                  "MessageProcessed")

\* process_message, AsyncBinaryAgreement(owner, m) arm; sub is the answer of
\* the owner's agreement, fin whether its finalize() succeeds.
AbaArm(ep, owner, sub, fin) ==
    IF owner \notin DOMAIN ep.node_states
    THEN EpochOut(ep, "MessageIgnored")
    ELSE LET ns == ep.node_states[owner]
         IN  IF ns.kind = "NonCommitteeNode"
             THEN EpochOut(ep, "MessageIgnored")
             ELSE IF ns.exec = "Done"
             THEN EpochOut(ep, "MessageIgnored")
             ELSE IF ns.exec # "RunningABA"
             THEN EpochOut(ep, "Panic")
             ELSE CASE sub = "Err" -> EpochOut(ep, "Err")
                    [] sub = "MessageQueued" -> EpochOut(ep, "MessageQueued")
                    [] sub = "MessageIgnored" -> EpochOut(ep, "MessageIgnored")
                    [] sub = "Processed" -> EpochOut(ep, "MessageProcessed")
                    [] sub = "Decided" ->
                         LET done == [ep EXCEPT !.node_states[owner].exec = "Done"]
                         IN  IF ~fin
                             THEN EpochOut(done, "Err")
                             ELSE IF ns.state # "IndexRBC"
                             THEN EpochOut([done EXCEPT
                                               !.node_states[owner].state = "Empty"],
                                           "Panic")
                             ELSE EpochOut([done EXCEPT
                                               !.node_states[owner].state = "ABA"],
                                           "MessageProcessed")

\* DumboRound::process_message
EpochProcess(ep, m, sub, fin) ==
    CASE m.type = "CommitteeElectionMessage" -> CeArm(ep, sub, fin)
      [] m.type = "ReliableBroadcast" -> RbcArm(ep, m.owner, sub)
      [] m.type = "IndexReliableBroadcast" -> EpochOut(ep, "Panic")
      [] m.type = "AsyncBinaryAgreement" -> AbaArm(ep, m.owner, sub, fin # <<>>)

\* No call of process_message made yet
NoEpochResult == [msg |-> EpochMsg("none", 0, 0), res |-> "none"]

----------------------------------------------------------------------------
(* One instance, driven by the harness with any message from any member.   *)

RbcIdle ==
    /\ rbc = RbcNew(0, TestQuorum)
    /\ rbcSent = <<>>

RbcNetIdle ==
    /\ rn = [n \in Correct |-> RbcNew(0, TestQuorum)]
    /\ rbyz = 0

RoundIdle ==
    /\ rdata = RoundNew(F, FALSE)
    /\ acoin = [r \in Rounds |-> <<>>]

AbaNetIdle ==
    /\ aba = [n \in Correct |-> AbaNew(FALSE, TestQuorum)]
    /\ asent = {}
    /\ abyz = 0
    /\ adec = [n \in Correct |-> {}]

InstIdle ==
    /\ inst = AbaNew(FALSE, TestQuorum)
    /\ instSent = {}

EpochIdle ==
    /\ epoch = EpochNew(0, TestQuorum)
    /\ eres = NoEpochResult

QuorumIdle ==
    /\ qargs = [n |-> N, f |-> F, members |-> Nodes]
    /\ qres = NoQuorumResult

OtherIdle ==
    /\ InstIdle
    /\ EpochIdle
    /\ QuorumIdle

Init ==
    /\ RbcIdle
    /\ RbcNetIdle
    /\ RoundIdle
    /\ AbaNetIdle
    /\ OtherIdle

\* process_message(m, network)
Process(m) ==
    LET r == RbcProcess(rbc, m)
    IN  /\ PendingLen(r.st) <= MaxPending
        /\ rbc' = r.st
        /\ rbcSent' = rbcSent \o r.out
        /\ UNCHANGED <<rnetVars, abaVars, otherVars>>

\* poll()
Poll ==
    /\ RbcPoll(rbc).msg # <<>>
    /\ rbc' = RbcPoll(rbc).st
    /\ UNCHANGED <<rbcSent, rnetVars, abaVars, otherVars>>

Next ==
    \/ \E m \in RbcMsgs : Process(m)
    \/ Poll

Spec == Init /\ [][Next]_vars

----------------------------------------------------------------------------
(* Properties of one reliable broadcast instance.                          *)

\* A Ready is among the instance's broadcasts.
ReadyBroadcast == \E i \in 1 .. Len(rbcSent) : rbcSent[i].kind = "Ready"

\* C6: the instance has left Proposed and broadcast Ready exactly when at
\* least n - f members have echoed the stored digest; with fewer, the phase is
\* still Proposed (or Init) and no Ready was broadcast.
RbcEchoThreshold ==
    IF Cardinality(rbc.received_echoes) >= N - F
    THEN rbc.state \in {"Echoed", "Ready"} /\ ReadyBroadcast
    ELSE rbc.state \in {"Init", "Proposed"} /\ ~ReadyBroadcast

\* C7: in Echoed a matching Ready returns Finalized and moves the phase to
\* Ready exactly when it brings the distinct ready-senders to 2f+1; with at
\* most 2f of them the result is Progressed and the phase stays Echoed.
RbcReadyThreshold ==
    /\ rbc.state = "Echoed" => Cardinality(rbc.received_readies) <= 2 * F
    /\ rbc.state = "Ready" => Cardinality(rbc.received_readies) = 2 * F + 1
    /\ \A m \in RbcMsgs : RbcProcess(rbc, m).res = "Finalized" => rbc.state = "Echoed"
    /\ \A m \in RbcMsgs :
        (m.kind = "Ready" /\ rbc.state = "Echoed" /\ CurrentDigestIs(rbc, m.digest))
            => LET r == RbcProcess(rbc, m)
               IN  IF Cardinality(rbc.received_readies \cup {m.from}) >= 2 * F + 1
                   THEN r.res = "Finalized" /\ r.st.state = "Ready"
                   ELSE r.res = "Progressed" /\ r.st.state = "Echoed"

\* The instance has returned Finalized on its (2f+1)-th ready.
RbcReadyThresholdReached ==
    /\ rbc.state = "Ready"
    /\ rbc.sent_ready
    /\ Cardinality(rbc.received_readies) = 2 * F + 1

\* C8: a Send processed in Init stores its (payload, digest), broadcasts
\* Echo(digest) and sets phase Proposed; every later Send is MessageIgnored and
\* changes nothing; no operation ever changes a stored proposal.
RbcSingleProposal ==
    /\ rbc.state = "Init" <=> rbc.proposed_messages = <<>>
    /\ RbcPoll(rbc).st.proposed_messages = rbc.proposed_messages
    /\ \A m \in RbcMsgs :
        LET r == RbcProcess(rbc, m)
        IN  /\ rbc.proposed_messages # <<>>
                => r.st.proposed_messages = rbc.proposed_messages
            /\ m.kind = "Send" =>
                IF rbc.state = "Init"
                THEN /\ r.st = [rbc EXCEPT !.proposed_messages =
                                               <<[payload |-> m.payload, digest |-> m.digest]>>,
                                           !.state = "Proposed"]
                     /\ r.out = <<[kind |-> "Echo", digest |-> m.digest]>>
                     /\ r.res = "Progressed"
                ELSE r.res = "MessageIgnored" /\ r.st = rbc /\ r.out = <<>>

\* The first Send was stored and its Echo broadcast, the echoes were enough,
\* and a Send of another payload and digest is now ignored.
RbcLaterSendIgnored ==
    /\ rbc.state = "Echoed"
    /\ rbcSent[1] = [kind |-> "Echo", digest |-> rbc.proposed_messages[1].digest]
    /\ \E m \in RbcMsgs :
        /\ m.kind = "Send"
        /\ m.payload # rbc.proposed_messages[1].payload
        /\ m.digest # rbc.proposed_messages[1].digest
        /\ RbcProcess(rbc, m).res = "MessageIgnored"

\* m is a matching Echo (in Proposed) or Ready (in Echoed) of a member the
\* instance has already counted.
RbcDuplicate(m) ==
    /\ CurrentDigestIs(rbc, m.digest)
    /\ \/ m.kind = "Echo" /\ rbc.state = "Proposed" /\ m.from \in rbc.received_echoes
       \/ m.kind = "Ready" /\ rbc.state = "Echoed" /\ m.from \in rbc.received_readies

\* C9: a message adds at most its own sender to a vote set, and a duplicate
\* returns Progressed, leaves the instance as it was (both counts, the
\* phase) and broadcasts nothing.
RbcDuplicateDiscipline ==
    \A m \in RbcMsgs :
        LET r == RbcProcess(rbc, m)
        IN  /\ r.st.received_echoes \subseteq rbc.received_echoes \cup {m.from}
            /\ r.st.received_readies \subseteq rbc.received_readies \cup {m.from}
            /\ RbcDuplicate(m) => r.res = "Progressed" /\ r.st = rbc /\ r.out = <<>>

\* An echo and a ready are counted, and re-processing the ready is a duplicate.
RbcDuplicateSeen ==
    /\ rbc.state = "Echoed"
    /\ Cardinality(rbc.received_readies) = 2 * F
    /\ \E m \in RbcMsgs : m.kind = "Ready" /\ RbcDuplicate(m)
                          /\ RbcProcess(rbc, m).res = "Progressed"

\* m arrives before its phase: an Echo in Init, a Ready in Init or Proposed.
RbcEarly(m) ==
    \/ m.kind = "Echo" /\ rbc.state = "Init"
    \/ m.kind = "Ready" /\ rbc.state \in {"Init", "Proposed"}

\* s is a prefix of t.
IsPrefix(s, t) == Len(s) <= Len(t) /\ SubSeq(t, 1, Len(s)) = s

RbcConflicting(m) ==
    /\ m.kind \in {"Echo", "Ready"}
    /\ rbc.proposed_messages # <<>>
    /\ m.digest # rbc.proposed_messages[1].digest

\* C11: once a digest is stored, an Echo or Ready with another digest
\* returns MessageQueued in every phase, joins its pending queue, adds no
\* sender to the echo or ready set, broadcasts nothing and leaves the phase.
RbcConflictingDigest ==
    \A m \in RbcMsgs :
        RbcConflicting(m) =>
            LET r == RbcProcess(rbc, m)
            IN  /\ r.res = "MessageQueued"
                /\ r.st = QueueMessage(rbc, m)
                /\ r.st.received_echoes = rbc.received_echoes
                /\ r.st.received_readies = rbc.received_readies
                /\ r.st.state = rbc.state
                /\ r.out = <<>>

\* The instance went through Echoed to Ready on the stored digest while an
\* Echo and a Ready with the other digest sit in the pending queues.
RbcConflictingQueued ==
    /\ rbc.state = "Ready"
    /\ \E i \in 1 .. Len(rbc.pending_echoes) : RbcConflicting(rbc.pending_echoes[i])
    /\ \E i \in 1 .. Len(rbc.pending_readies) : RbcConflicting(rbc.pending_readies[i])

\* C12: a message returned by poll() and passed straight back to
\* process_message is accepted (Progressed or Finalized), never queued again.
RbcPollProcessable ==
    RbcPoll(rbc).msg # <<>>
        => RbcProcess(RbcPoll(rbc).st, RbcPoll(rbc).msg[1]).res \in {"Progressed", "Finalized"}

\* C13: finalize() returns the stored (payload, digest) exactly in Ready
\* and NotReadyToFinalize in Init, Proposed and Echoed; what it returns is
\* what the first Send stored, which no later step replaces.
RbcFinalizePrecondition ==
    /\ RbcFinalize(rbc).ok <=> rbc.state = "Ready"
    /\ rbc.state = "Ready" => RbcFinalize(rbc).value = rbc.proposed_messages[1]
    /\ rbc.state # "Ready" => RbcFinalize(rbc).err = "NotReadyToFinalize"
    /\ RbcPoll(rbc).st.proposed_messages = rbc.proposed_messages
    /\ \A m \in RbcMsgs :
        LET r == RbcProcess(rbc, m)
        IN  r.st.proposed_messages =
                IF rbc.proposed_messages = <<>> /\ m.kind = "Send"
                THEN <<[payload |-> m.payload, digest |-> m.digest]>>
                ELSE rbc.proposed_messages

\* finalize() succeeds in Ready and returns the stored proposal, while a
\* Ready that came too early or for another digest is still pending.
RbcFinalizeReturns ==
    /\ rbc.state = "Ready"
    /\ RbcFinalize(rbc).ok
    /\ RbcFinalize(rbc).value = rbc.proposed_messages[1]
    /\ rbc.pending_readies # <<>>

----------------------------------------------------------------------------
(* One broadcast among N members joined by an asynchronous network.  The   *)
(* correct members run the code.  What a correct member has broadcast is   *)
(* read off its instance, and stays in flight to each member until that    *)
(* member's instance consumes it: a message the instance would only queue  *)
(* is delivered later instead.  The designated sender is the Byzantine     *)
(* member; the Byzantine members send any message to any member at any     *)
(* time, MaxByz messages in all.  The transport authenticates the sender.  *)

NetSender == N - 1

RbcNetInit ==
    /\ RbcIdle
    /\ OtherIdle
    /\ rn = [n \in Correct |-> RbcNew(NetSender, TestQuorum)]
    /\ rbyz = 0
    /\ RoundIdle
    /\ AbaNetIdle

\* The messages correct member c has broadcast so far: broadcast_echo on the
\* Send it accepted, broadcast_ready when its echoes were enough.
SentBy(c) ==
    (IF rn[c].proposed_messages # <<>>
     THEN {EchoMsg(c, rn[c].proposed_messages[1].digest)} ELSE {})
    \cup (IF rn[c].sent_echo
          THEN {ReadyMsg(c, rn[c].proposed_messages[1].digest)} ELSE {})

InFlight == UNION {SentBy(c) : c \in Correct}

\* Member n's instance consumes m: process_message neither queues it nor
\* leaves the instance as it was.
Consumes(n, m) ==
    /\ RbcProcess(rn[n], m).res # "MessageQueued"
    /\ RbcProcess(rn[n], m).st # rn[n]

\* Member n's owner has seen Finalized and called finalize().
NetFinalized(n) == RbcFinalize(rn[n]).ok

\* The network delivers a correct member's broadcast to member n.
NetDeliver(n, m) ==
    /\ Consumes(n, m)
    /\ rn' = [rn EXCEPT ![n] = RbcProcess(rn[n], m).st]
    /\ UNCHANGED <<rbcVars, rbyz, abaVars, otherVars>>

\* A Byzantine member sends m to member n.
NetByzantine(n, m) ==
    /\ rbyz < MaxByz
    /\ Consumes(n, m)
    /\ rbyz' = rbyz + 1
    /\ rn' = [rn EXCEPT ![n] = RbcProcess(rn[n], m).st]
    /\ UNCHANGED <<rbcVars, abaVars, otherVars>>

RbcNetNext ==
    \/ \E n \in Correct : \E m \in InFlight : NetDeliver(n, m)
    \/ \E n \in Correct : \E m \in RbcMsgsFrom(Byzantine) : NetByzantine(n, m)

\* Every broadcast of a correct member is eventually delivered.
SpecRbcNet ==
    /\ RbcNetInit
    /\ [][RbcNetNext]_vars
    /\ WF_vars(\E n \in Correct : \E m \in InFlight : NetDeliver(n, m))

\* C1: every two correct members that finalize hold the same (payload, digest).
RbcAgreement ==
    \A i, j \in Correct :
        NetFinalized(i) /\ NetFinalized(j)
            => RbcFinalize(rn[i]).value = RbcFinalize(rn[j]).value

\* Every broadcast of a correct member has been delivered wherever the
\* receiving instance can consume it: nothing more happens unless a Byzantine
\* member acts.
NetQuiescent == \A n \in Correct : \A m \in InFlight : ~Consumes(n, m)

\* C2: once a correct member has finalized and the correct members' messages
\* have all been delivered, every correct member has finalized.
RbcTotality ==
    (NetQuiescent /\ \E n \in Correct : NetFinalized(n))
        => \A n \in Correct : NetFinalized(n)

----------------------------------------------------------------------------
(* One round, driven by the harness.  The members 0 .. 2f pass a phase as  *)
(* the tests pass it (each votes for the round's estimate, with its valid  *)
(* share in a Conf); in the phase that follows phases passed in this way,  *)
(* any member sends any vote.  Only a Byzantine member sends a share that  *)
(* is not its valid one.                                                   *)

\* The members the tests' helpers loop over: 0 .. 2f
Quorum == 0 .. 2 * F

\* The lists the harness puts in an Aux or a Conf
RoundLists == {<<>>, <<FALSE>>, <<TRUE>>}

RoundInit ==
    /\ RbcIdle
    /\ OtherIdle
    /\ RbcNetIdle
    /\ AbaNetIdle
    /\ \E e \in BOOLEAN : rdata = RoundNew(F, e)
    /\ \E c \in BOOLEAN : acoin = [r \in Rounds |-> <<c>>]

RoundUnchanged == UNCHANGED <<rbcVars, rnetVars, acoin, anetVars, otherVars>>

\* perform_full_val_round: Val{estimate} from each member of 0 .. 2f
PassedVal(rd) ==
    rd.received_vals = [b \in BOOLEAN |-> IF b = rd.estimate THEN Quorum ELSE {}]

\* perform_full_aux_round: Aux{[estimate]} from each member of 0 .. 2f
PassedAux(rd) ==
    rd.received_aux = [l \in BoolLists |-> IF l = <<rd.estimate>> THEN Quorum ELSE {}]

\* perform_full_conf_round: Conf{[estimate], share} from each member of 0 .. 2f
PassedConf(rd) ==
    rd.received_conf = [l \in BoolLists |->
                           IF l = <<rd.estimate>>
                           THEN {[from |-> s, sig |-> "ok"] : s \in Quorum}
                           ELSE {}]

\* The phases before the round's current one were passed as the tests pass them.
PhasesPassed(rd) ==
    /\ rd.state # "CollectingVal" => PassedVal(rd)
    /\ rd.state \in {"CollectingConf", "Finishing"} => PassedAux(rd)
    /\ rd.state = "Finishing" => PassedConf(rd)

\* accept_estimate(s, b)
RoundVal(s, b) ==
    /\ PhasesPassed(rdata)
    /\ rdata' = AcceptEstimate(rdata, s, b).rd
    /\ RoundUnchanged

\* accept_auxiliary(s, l)
RoundAux(s, l) ==
    /\ PhasesPassed(rdata)
    /\ rdata' = AcceptAuxiliary(rdata, s, l).rd
    /\ RoundUnchanged

\* accept_confirmation(s, l, sig)
RoundConf(s, l, sig) ==
    /\ PhasesPassed(rdata)
    /\ sig = "ok" \/ s \in Byzantine
    /\ \E flip \in CoinOutcomes(SharesWith(rdata, s, l, sig), acoin[0][1]) :
          rdata' = AcceptConfirmation(rdata, s, l, sig, flip).rd
    /\ RoundUnchanged

\* accept_finish(s, b)
RoundFinish(s, b) ==
    /\ PhasesPassed(rdata)
    /\ rdata' = AcceptFinish(rdata, s, b).rd
    /\ RoundUnchanged

RoundNext ==
    \/ \E s \in Nodes : \E b \in BOOLEAN : RoundVal(s, b)
    \/ \E s \in Nodes : \E l \in RoundLists : RoundAux(s, l)
    \/ \E s \in Nodes : \E l \in RoundLists : \E sig \in Sigs : RoundConf(s, l, sig)
    \/ \E s \in Nodes : \E b \in BOOLEAN : RoundFinish(s, b)

SpecAbaRound == RoundInit /\ [][RoundNext]_vars

\* C5: once the Finish count of a value has reached 2f+1, so that
\* Finalized was returned, every further Finish message of the round, from
\* any member and for either value, returns AlreadyAccepted or Ignored.
AbaDecidedOnce ==
    \A v \in BOOLEAN :
        Cardinality(rdata.received_finish[v]) >= 2 * F + 1
        => \A s \in Nodes : \A b \in BOOLEAN :
              AcceptFinish(rdata, s, b).res.tag \in {"AlreadyAccepted", "Ignored"}

\* An instance in round 0 whose current round is rd.
AbaAround(rd) ==
    [AbaNew(rd.estimate, TestQuorum) EXCEPT !.current_round = rd]

\* C15: in CollectingVal, a Val{b} from a sender not yet recorded for b is
\* recorded, and with c the resulting number of senders of b: when
\* c >= 2f+1, b joins values_r, the round is in CollectingAux and the
\* instance broadcasts Aux{values_r}; otherwise when c >= f+1 and b was not
\* yet relayed, the instance broadcasts Val{b} and b is marked as relayed;
\* otherwise nothing else changes and nothing is sent.  A value is marked
\* as relayed exactly when f+1 senders were recorded for it, so that the
\* relay happens once.
AbaValThresholds ==
    /\ \A b \in BOOLEAN :
          b \in rdata.broadcast_estimates => Cardinality(rdata.received_vals[b]) >= F + 1
    /\ rdata.state = "CollectingVal" =>
       \A s \in Nodes : \A b \in BOOLEAN :
          s \notin rdata.received_vals[b] =>
          LET c == Cardinality(rdata.received_vals[b]) + 1
              r == AcceptEstimate(rdata, s, b)
              i == ProcessValMessage(AbaAround(rdata), ValMsg(s, 0, b))
          IN  /\ r.rd.received_vals = [rdata.received_vals EXCEPT ![b] = @ \cup {s}]
              /\ i.st.current_round = r.rd
              /\ i.res = "Processed"
              /\ IF c >= 2 * F + 1
                 THEN /\ r.rd.values_r = rdata.values_r \cup {b}
                      /\ r.rd.state = "CollectingAux"
                      /\ r.rd.broadcast_estimates = rdata.broadcast_estimates
                      /\ r.res.tag = "BroadcastAux"
                      /\ i.out = {AuxMsg(0, 0, ToList(r.rd.values_r))}
                 ELSE IF c >= F + 1 /\ b \notin rdata.broadcast_estimates
                 THEN /\ r.rd.values_r = rdata.values_r
                      /\ r.rd.state = "CollectingVal"
                      /\ r.rd.broadcast_estimates = rdata.broadcast_estimates \cup {b}
                      /\ r.res.tag = "BroadcastEst"
                      /\ i.out = {ValMsg(0, 0, b)}
                 ELSE /\ r.rd = [rdata EXCEPT !.received_vals[b] = @ \cup {s}]
                      /\ c <= F
                      /\ r.res.tag = "Accepted"
                      /\ i.out = {}

\* Both values were relayed on f+1 Val messages and one of them reached 2f+1.
AbaValQuorumAfterRelays ==
    /\ rdata.state = "CollectingAux"
    /\ rdata.broadcast_estimates = BOOLEAN
    /\ Cardinality(rdata.values_r) = 1

\* What combining the shares of a Conf quorum can yield, whatever the shares.
Flips == {FlipErr, Flip(FALSE), Flip(TRUE)}

\* The round's result for a vote already recorded: AlreadyAccepted from the
\* vote's store in the vote's phase, Ignored from the dispatch after it.
RepeatedIn(phase) ==
    IF rdata.state = phase THEN "AlreadyAccepted" ELSE "Ignored"

AbaAuxThreshold ==
    rdata.state = "CollectingAux" =>
    \A s \in Nodes : \A l \in BoolLists :
       s \notin rdata.received_aux[l] =>
       LET c == Cardinality(rdata.received_aux[l]) + 1
           r == AcceptAuxiliary(rdata, s, l)
           i == ProcessAuxMessage(AbaAround(rdata), AuxMsg(s, 0, l))
       IN  /\ r.rd.received_aux = [rdata.received_aux EXCEPT ![l] = @ \cup {s}]
           /\ r.rd.values_r = rdata.values_r
           /\ i.st.current_round = r.rd
           /\ i.res = "Processed"
           /\ IF c >= 2 * F + 1 /\ ToSet(l) \subseteq rdata.values_r
              THEN /\ r.rd.state = "CollectingConf"
                   /\ r.res.tag = "BroadcastConf"
                   /\ i.out = {ConfMsg(0, 0, ToList(rdata.values_r), OwnShare)}
              ELSE /\ r.rd.state = "CollectingAux"
                   /\ r.res.tag = "Accepted"
                   /\ i.out = {}

\* The round advanced on a list within values_r while every member
\* supported a list outside it.
AbaAuxOutsideSupported ==
    /\ rdata.state = "CollectingConf"
    /\ \E l \in BoolLists :
          /\ ~(ToSet(l) \subseteq rdata.values_r)
          /\ rdata.received_aux[l] = Nodes

RbcDuplicateIdempotent ==
    \A m \in RbcMsgs :
        LET once == RbcProcess(rbc, m)
            twice == RbcProcess(once.st, m)
        IN  twice.st = once.st /\ twice.out = <<>>

\* C26: no message is set aside where poll() cannot hand it out again: an
\* Echo answered MessageQueued goes to a bucket of an instance that is in, or
\* will yet be in, Proposed (the phase whose poll() takes echoes), and a Ready
\* answered MessageQueued to one that is in, or will yet be in, Echoed.
RbcQueuedReturnable ==
    \A m \in RbcMsgs :
        LET r == RbcProcess(rbc, m)
        IN  r.res = "MessageQueued" =>
                CASE m.kind = "Echo" -> r.st.state \in {"Init", "Proposed"}
                  [] m.kind = "Ready" -> r.st.state \in {"Init", "Proposed", "Echoed"}
                  [] OTHER -> TRUE

\* The tags of RoundDataVoteAcceptResult
RoundResultTags ==
    {"Accepted", "AlreadyAccepted", "Ignored", "Queue", "BroadcastEst",
     "BroadcastAux", "BroadcastConf", "BroadcastFinalized", "Finalized", "Failed"}

\* C31: when the Conf that brings the signers of F to 2f+1, with F a subset
\* of values_r, meets shares that do not combine, accept_confirmation returns
\* the round result Failed(e) with e the round's estimate; the phase, the
\* estimate, values_r and every other vote record are as before, the Conf is
\* recorded, and nothing but a round result is returned.
AbaCombineFailure ==
    rdata.state = "CollectingConf" =>
    \A s \in Nodes : \A l \in BoolLists : \A sig \in Sigs :
        ((~ \E c \in rdata.received_conf[l] : c.from = s)
         /\ Cardinality(rdata.received_conf[l]) + 1 >= 2 * F + 1
         /\ ToSet(l) \subseteq rdata.values_r) =>
        LET r == AcceptConfirmation(rdata, s, l, sig, FlipErr)
        IN  /\ r.res = Result("Failed", rdata.estimate)
            /\ r.res.tag \in RoundResultTags
            /\ r.rd.state = rdata.state
            /\ r.rd.estimate = rdata.estimate
            /\ r.rd = [rdata EXCEPT !.received_conf[l] =
                                       @ \cup {[from |-> s, sig |-> sig]}]

\* A round still in CollectingConf after 2f+1 members, one of them with a
\* share that is not valid, confirmed a set within values_r.
AbaCombineFailed ==
    /\ rdata.state = "CollectingConf"
    /\ \E l \in BoolLists :
          /\ ToSet(l) \subseteq rdata.values_r
          /\ Cardinality(rdata.received_conf[l]) >= 2 * F + 1
          /\ \E c \in rdata.received_conf[l] : c.sig = "bad"

\* C33: Aux and Conf votes are counted per set of values: a sender whose
\* vote for a list was recorded cannot vote again with another list of the
\* same values, in CollectingAux with an Aux and in CollectingConf with a
\* Conf; the second vote is answered AlreadyAccepted.
AbaVotesPerSet ==
    \A s \in Nodes : \A l1 \in BoolLists : \A l2 \in BoolLists :
        ToSet(l1) = ToSet(l2) =>
            /\ LET once == AcceptAuxiliary(rdata, s, l1)
               IN  (rdata.state = "CollectingAux" /\ once.res.tag = "Accepted") =>
                      AcceptAuxiliary(once.rd, s, l2).res.tag = "AlreadyAccepted"
            /\ LET once == AcceptConfirmation(rdata, s, l1, "ok", Flip(TRUE))
               IN  (rdata.state = "CollectingConf" /\ once.res.tag = "Accepted") =>
                      AcceptConfirmation(once.rd, s, l2, "ok", Flip(TRUE)).res.tag
                          = "AlreadyAccepted"

\* C34: values_r holds at most one value: it is empty in CollectingVal, the
\* first value with 2f+1 Val votes is put in it as the round leaves
\* CollectingVal, and from then on every Val is answered Ignored and changes
\* nothing; so every Aux and every Conf the round tells its member to
\* broadcast carries exactly one value.
AbaValuesAtMostOne ==
    /\ Cardinality(rdata.values_r) <= 1
    /\ rdata.state = "CollectingVal" <=> rdata.values_r = {}
    /\ \A s \in Nodes : \A b \in BOOLEAN :
          LET r == AcceptEstimate(rdata, s, b)
          IN  /\ rdata.state # "CollectingVal" =>
                    r.rd = rdata /\ r.res.tag = "Ignored"
              /\ r.res.tag = "BroadcastAux" =>
                    r.res.val = <<b>> /\ r.rd.values_r = {b}
    /\ \A s \in Nodes : \A l \in BoolLists :
          LET r == AcceptAuxiliary(rdata, s, l)
          IN  r.res.tag = "BroadcastConf" =>
                 Len(r.res.val) = 1 /\ ToSet(r.res.val) = rdata.values_r

\* A round past CollectingVal in which the value that is not in values_r has
\* 2f Val votes, the next of which would have been its 2f+1st.
AbaSecondValueShut ==
    /\ rdata.state # "CollectingVal"
    /\ \E b \in BOOLEAN :
          /\ rdata.values_r = {b}
          /\ Cardinality(rdata.received_vals[~b]) = 2 * F

\* C37: a Send whose header's sender is not the instance's designated sender
\* is never stored as the proposal and never makes the instance broadcast.
RbcSendFromSenderOnly ==
    \A m \in RbcMsgs :
        (m.kind = "Send" /\ m.from # rbc.sender) =>
            /\ RbcProcess(rbc, m).st.proposed_messages = rbc.proposed_messages
            /\ RbcProcess(rbc, m).out = <<>>

\* The places of the broadcasts of a kind among the instance's broadcasts
SentAt(kind) == {i \in 1 .. Len(rbcSent) : rbcSent[i].kind = kind}

\* C38: the instance broadcasts at most one Echo, on leaving Init, and at
\* most one Ready, on entering Echoed, both with the stored digest and the
\* Ready after the Echo; and process_message answers Finalized only on the
\* step from Echoed to Ready, so at most once: in Ready no message, repeated
\* or new, is answered Finalized or makes the instance broadcast.
RbcBroadcastsOnce ==
    /\ Cardinality(SentAt("Echo")) <= 1
    /\ Cardinality(SentAt("Ready")) <= 1
    /\ SentAt("Echo") # {} <=> rbc.state # "Init"
    /\ SentAt("Ready") # {} <=> rbc.state \in {"Echoed", "Ready"}
    /\ \A i \in 1 .. Len(rbcSent) : CurrentDigestIs(rbc, rbcSent[i].digest)
    /\ \A r \in SentAt("Ready") : \E e \in SentAt("Echo") : e < r
    /\ \A m \in RbcMsgs :
          LET r == RbcProcess(rbc, m)
          IN  /\ r.res = "Finalized" =>
                    rbc.state = "Echoed" /\ r.st.state = "Ready"
              /\ rbc.state = "Ready" =>
                    r.res # "Finalized" /\ r.out = <<>> /\ r.st.state = "Ready"

\* An instance in Ready that has broadcast its Echo and its Ready and holds
\* messages it set aside.
RbcFinalizedWithPending ==
    /\ rbc.state = "Ready"
    /\ Len(rbcSent) = 2
    /\ PendingLen(rbc) > 0

----------------------------------------------------------------------------
(* The phases of both machines: the harness drives either the broadcast    *)
(* instance (any message from any member, and poll) or the agreement       *)
(* round (as above), never both in one behaviour.                          *)

PhasesInit ==
    /\ RbcIdle
    /\ OtherIdle
    /\ RbcNetIdle
    /\ AbaNetIdle
    /\ rdata = RoundNew(F, TRUE)
    /\ acoin = [r \in Rounds |-> <<TRUE>>]

PhasesNext ==
    \/ rdata = RoundNew(F, TRUE) /\ Next
    \/ RbcIdle /\ RoundNext

SpecPhases == PhasesInit /\ [][PhasesNext]_vars

\* The order of ReliableBroadcastState
RbcPhase(state) ==
    CASE state = "Init" -> 0
      [] state = "Proposed" -> 1
      [] state = "Echoed" -> 2
      [] state = "Ready" -> 3

\* C14: a step of the broadcast instance (process_message or poll) and a
\* step of the agreement round (any accept_*) leaves the phase where it is
\* or moves it to the next phase of the order: Init, Proposed, Echoed, Ready
\* for the instance, CollectingVal, CollectingAux, CollectingConf, Finishing
\* for the round.  No step goes backwards and no step skips a phase.
MonotonePhases ==
    [][/\ RbcPhase(rbc'.state) - RbcPhase(rbc.state) \in {0, 1}
       /\ RoundPhase(rdata'.state) - RoundPhase(rdata.state) \in {0, 1}]_vars

\* A machine at the end of its order.
LastPhaseReached == rbc.state = "Ready" \/ rdata.state = "Finishing"

----------------------------------------------------------------------------
(* One agreement instance, driven as message_handling_test drives it: the  *)
(* members 0 .. 2f send it the votes of round 0 and the Val of any round   *)
(* up to MaxInstRound, the harness polls it and calls advance_round.  At   *)
(* most MaxInstPending messages are buffered at a time.                    *)

InstRounds == 0 .. MaxInstRound

\* get_val_message for any round, get_aux_message and get_conf_message for
\* round 0, all for the estimate true
InstMsgs ==
    {ValMsg(s, r, TRUE) : <<s, r>> \in Quorum \X InstRounds}
    \cup UNION {{AuxMsg(s, 0, <<TRUE>>), ConfMsg(s, 0, <<TRUE>>, "ok")} : s \in Quorum}

\* The number of messages in the buffer
RECURSIVE SumLen(_)
SumLen(buckets) ==
    IF buckets = <<>> THEN 0 ELSE Len(Head(buckets)) + SumLen(Tail(buckets))

InstInit ==
    /\ RbcIdle
    /\ RbcNetIdle
    /\ RoundIdle
    /\ AbaNetIdle
    /\ EpochIdle
    /\ QuorumIdle
    /\ inst = AbaNew(TRUE, TestQuorum)
    /\ instSent = {}

InstUnchanged == UNCHANGED <<rbcVars, rnetVars, abaVars, epochVars, quorumVars>>

\* accept_message(m.from, m); flip is the bit the round's combined signature
\* hashes to
InstProcess(m, flip) ==
    LET r == AbaProcess(inst, m, flip)
    IN  /\ SumLen(r.st.pending_messages.per_round_messages) <= MaxInstPending
        /\ r.st.round <= MaxInstRound
        /\ inst' = r.st
        /\ instSent' = instSent \cup r.out
        /\ InstUnchanged

\* aba.poll()
InstPoll ==
    /\ ~AbaPoll(inst).panic
    /\ inst' = AbaPoll(inst).st
    /\ UNCHANGED instSent
    /\ InstUnchanged

\* test_data.advance_round(INITIAL_ESTIMATE), called as the tests call it:
\* on an instance whose current round has recorded no vote.
InstAdvance ==
    /\ inst.round < MaxInstRound
    /\ inst.current_round = RoundNew(F, inst.current_round.estimate)
    /\ inst' = AdvanceRound(inst, TRUE)
    /\ UNCHANGED instSent
    /\ InstUnchanged

InstNext ==
    \/ \E m \in InstMsgs : \E flip \in {Flip(FALSE), Flip(TRUE)} : InstProcess(m, flip)
    \/ InstPoll
    \/ InstAdvance

SpecAba == InstInit /\ [][InstNext]_vars

\* Every message a member can send the instance
AllAbaMsgs ==
    UNION {{ValMsg(s, r, b) : b \in BOOLEAN}
           \cup {AuxMsg(s, r, l) : l \in BoolLists}
           \cup {ConfMsg(s, r, l, sig) : l \in BoolLists, sig \in Sigs}
           \cup {FinishMsg(s, r, b) : b \in BOOLEAN} :
           <<s, r>> \in Nodes \X (0 .. MaxInstRound + 1)}

\* The messages buffered for round q, oldest first
Bucket(p, q) ==
    LET i == q - p.current_round_base + 1
    IN  IF i >= 1 /\ i <= Len(p.per_round_messages)
        THEN p.per_round_messages[i]
        ELSE <<>>

\* C21: a message of a round above the instance's is appended to that
\* round's bucket and answered MessageQueued; a message of a round below it
\* is answered MessageIgnored and changes nothing at all.  In both cases the
\* round number, the current round (phase, votes, values_r, estimate) and
\* every other bucket are as before and nothing is sent.
AbaRoundRouting ==
    \A m \in AllAbaMsgs : \A flip \in Flips :
        LET r == AbaProcess(inst, m, flip)
        IN  /\ m.round > inst.round =>
                /\ r.res = "MessageQueued"
                /\ r.out = {}
                /\ r.st.round = inst.round
                /\ r.st.current_round = inst.current_round
                /\ \A q \in 0 .. MaxInstRound + 1 :
                      Bucket(r.st.pending_messages, q) =
                          IF q = m.round
                          THEN Append(Bucket(inst.pending_messages, q), m)
                          ELSE Bucket(inst.pending_messages, q)
            /\ m.round < inst.round =>
                /\ r.res = "MessageIgnored"
                /\ r.out = {}
                /\ r.st = inst

\* An instance beyond round 0 that holds a message for a later round.
AbaRoutedBothWays ==
    /\ inst.round = 1
    /\ Bucket(inst.pending_messages, 2) # <<>>
    /\ inst.current_round.state # "CollectingVal"

\* s with its i-th element removed
RemoveAt(s, i) == SubSeq(s, 1, i - 1) \o SubSeq(s, i + 1, Len(s))

AbaPollNeverFails == ~AbaPoll(inst).panic

\* C36: the loop "m := poll(); if m exists then process(m)" comes to an end:
\* a step of it that takes a message never leaves the instance exactly as it
\* was before the poll, with the message back in its bucket.
AbaDrainProgresses ==
    LET pl == AbaPoll(inst)
    IN  (~pl.panic /\ pl.msg # <<>>) =>
            \A flip \in Flips : AbaProcess(pl.st, pl.msg[1], flip).st # inst

\* What the current round answers to message m
RoundResultOf(st, m, flip) ==
    CASE m.type = "Val" -> AcceptEstimate(st.current_round, m.from, m.bit)
      [] m.type = "Aux" -> AcceptAuxiliary(st.current_round, m.from, m.vals)
      [] m.type = "Conf" ->
            AcceptConfirmation(st.current_round, m.from, m.vals, m.sig, flip)
      [] m.type = "Finish" -> AcceptFinish(st.current_round, m.from, m.bit)

AbaPollOldestFirst ==
    LET b == Bucket(inst.pending_messages, inst.round)
    IN  b # <<>> => AbaPoll(inst).msg = <<Head(b)>>

\* C32: advance_round(b) appends the current round to previous_rounds,
\* installs a round in CollectingVal with estimate b, empty values_r and
\* empty vote and broadcast sets, raises the round number by exactly one and
\* leaves the pending buffer as it is.  The round number equals the length
\* of previous_rounds, and neither process_message nor poll() lowers it.
AbaAdvanceEffect ==
    /\ inst.round = Len(inst.previous_rounds)
    /\ \A b \in BOOLEAN :
          LET a == AdvanceRound(inst, b)
              rd == a.current_round
          IN  /\ a.previous_rounds = Append(inst.previous_rounds, inst.current_round)
              /\ rd.state = "CollectingVal"
              /\ rd.estimate = b
              /\ rd.values_r = {}
              /\ \A v \in BOOLEAN : rd.received_vals[v] = {} /\ rd.received_finish[v] = {}
              /\ \A l \in BoolLists : rd.received_aux[l] = {} /\ rd.received_conf[l] = {}
              /\ rd.broadcast_estimates = {}
              /\ rd.broadcast_finish = {}
              /\ a.round = inst.round + 1
              /\ a.pending_messages = inst.pending_messages
              /\ a.input_bit = inst.input_bit
              /\ a.quorum_info = inst.quorum_info
    /\ \A m \in AllAbaMsgs : \A flip \in Flips :
          LET r == AbaProcess(inst, m, flip).st
          IN  /\ r.round >= inst.round
              /\ r.round = Len(r.previous_rounds)
    /\ ~AbaPoll(inst).panic =>
          /\ AbaPoll(inst).st.round = inst.round
          /\ AbaPoll(inst).st.previous_rounds = inst.previous_rounds

\* An instance two rounds on, one round left through a failed coin flip and
\* one through the tests' advance_round, holding a buffered message.
AbaAdvancedTwice ==
    /\ inst.round = 2
    /\ Len(inst.previous_rounds) = 2
    /\ \E i \in 1 .. 2 : inst.previous_rounds[i].state = "CollectingConf"
    /\ \E i \in 1 .. 2 : inst.previous_rounds[i] = RoundNew(F, TRUE)
    /\ SumLen(inst.pending_messages.per_round_messages) > 0

----------------------------------------------------------------------------
(* One agreement among N members joined by an asynchronous network.  The   *)
(* correct members run the code; each one's owner broadcasts Val{estimate} *)
(* at the start of each of its rounds.  A broadcast stays in flight to     *)
(* each member until that member's instance consumes it (a message the     *)
(* instance would queue or ignore is delivered later instead), so messages *)
(* are delayed and reordered at will.  The Byzantine members send any      *)
(* message to their targets at any time, MaxAbaByz messages in all.  Each  *)
(* round's coin is fixed by the key set and learnt by the first member     *)
(* that combines shares; rounds beyond MaxAbaRound are not explored.       *)

\* The input bits of the correct members 0, 1, 2: all true, as in the tests.
AbaInputs == {<<TRUE, TRUE, TRUE>>}

\* The members the Byzantine members send to.  The correct members start
\* alike and the code treats member ids alike, so with one Byzantine message
\* its receiver can be taken to be member 0.
ByzTargets == {0}

\* The lists a Byzantine member puts in an Aux or a Conf.
ByzLists == {<<FALSE>>, <<TRUE>>}

\* The owner's Val for the estimate its round starts with.
Announce(n, round, estimate) == ValMsg(n, round, estimate)

\* The messages the members of S can send for round r.
AbaMsgsFrom(S, r) ==
    {ValMsg(s, r, b) : s \in S, b \in BOOLEAN}
    \cup {AuxMsg(s, r, l) : s \in S, l \in ByzLists}
    \cup UNION {{ConfMsg(s, r, l, g) : s \in S, l \in ByzLists} : g \in Sigs}
    \cup {FinishMsg(s, r, b) : s \in S, b \in BOOLEAN}

AbaNetInit ==
    /\ RbcIdle
    /\ OtherIdle
    /\ RbcNetIdle
    /\ rdata = RoundNew(F, FALSE)
    /\ acoin = [r \in Rounds |-> <<>>]
    /\ \E inp \in AbaInputs :
          /\ aba = [n \in Correct |-> AbaNew(inp[n + 1], TestQuorum)]
          /\ asent = {Announce(n, 0, inp[n + 1]) : n \in Correct}
    /\ abyz = 0
    /\ adec = [n \in Correct |-> {}]

\* Member n combines shares when it processes m.
Combines(n, m) ==
    /\ m.type = "Conf"
    /\ aba[n].current_round.state = "CollectingConf"
    /\ \A c \in aba[n].current_round.received_conf[m.vals] : c.from # m.from
    /\ CoinFlipDue(aba[n].current_round, m.from, m.vals, m.sig)

\* What combining yields at member n when the round's coin is bit.
FlipsFor(n, m, bit) ==
    IF Combines(n, m)
    THEN CoinOutcomes(SharesWith(aba[n].current_round, m.from, m.vals, m.sig), bit)
    ELSE {Flip(bit)}

\* Member n's instance processes m and consumes it; what it broadcasts, and
\* the Val of the round it advances to, go in flight.
AbaReceive(n, m) ==
    /\ m.round = aba[n].round
    /\ \E bit \in BOOLEAN :
          /\ acoin[m.round] \in {<<>>, <<bit>>}
          /\ acoin' = IF Combines(n, m) THEN [acoin EXCEPT ![m.round] = <<bit>>] ELSE acoin
          /\ \E flip \in FlipsFor(n, m, bit) :
                LET r == AbaProcess(aba[n], m, flip)
                IN  /\ r.res # "MessageQueued"
                    /\ r.st # aba[n]
                    /\ r.st.round <= MaxAbaRound
                    /\ aba' = [aba EXCEPT ![n] = r.st]
                    /\ asent' = asent \cup {[o EXCEPT !.from = n] : o \in r.out}
                           \cup (IF r.st.round # aba[n].round
                                 THEN {Announce(n, r.st.round, r.st.current_round.estimate)}
                                 ELSE {})
                    /\ adec' = [adec EXCEPT ![n] =
                                   IF r.res = "Decided" THEN @ \cup {m.bit} ELSE @]

\* The network delivers a correct member's broadcast to member n.
AbaDeliver(n, m) ==
    /\ AbaReceive(n, m)
    /\ UNCHANGED <<rbcVars, rnetVars, rdata, abyz, otherVars>>

\* A Byzantine member sends m, of member n's round, to member n.
AbaByzantine(n, m) ==
    /\ abyz < MaxAbaByz
    /\ AbaReceive(n, m)
    /\ abyz' = abyz + 1
    /\ UNCHANGED <<rbcVars, rnetVars, rdata, otherVars>>

AbaNetNext ==
    \/ \E n \in Correct : \E m \in asent : AbaDeliver(n, m)
    \/ \E n \in ByzTargets : \E m \in AbaMsgsFrom(Byzantine, aba[n].round) :
          AbaByzantine(n, m)

SpecAbaNet == AbaNetInit /\ [][AbaNetNext]_vars

----------------------------------------------------------------------------
(* The quorum constructor and the tolerance functions, applied to every    *)
(* n, f and member list within the bounds.                                 *)

\* The member lists: the first k node ids
MemberLists == {0 .. (k - 1) : k \in 0 .. MaxQuorumN}

QuorumInit ==
    /\ RbcIdle
    /\ RbcNetIdle
    /\ RoundIdle
    /\ AbaNetIdle
    /\ InstIdle
    /\ EpochIdle
    /\ qargs \in [n : 0 .. MaxQuorumN, f : 0 .. MaxQuorumF, members : MemberLists]
    /\ qres = NoQuorumResult

QuorumUnchanged == UNCHANGED <<rbcVars, rnetVars, abaVars, instVars, epochVars, qargs>>

\* QuorumInfo::new(n, f, quorum_members)
QuorumNew ==
    /\ qres.kind = "none"
    /\ qres' = QuorumNewResult(qargs.n, qargs.f, qargs.members)
    /\ QuorumUnchanged

\* get_n_for_f(f), get_quorum_for_n and get_f_for_n of that n
Tolerance ==
    /\ qres.kind = "none"
    /\ qres' = ToleranceResult(qargs.f)
    /\ QuorumUnchanged

QuorumNext ==
    \/ QuorumNew
    \/ Tolerance

SpecQuorum == QuorumInit /\ [][QuorumNext]_vars

\* C27: QuorumInfo::new(n, f, members) fails its assertion whenever
\* n < 3f + 1 or the number of members is not n; when it accepts,
\* quorum_size = n - f and f and the members are the arguments.
QuorumNewChecksBoth ==
    qres.kind = "new" =>
        /\ qres.ok <=> (qargs.n >= 3 * qargs.f + 1
                        /\ Cardinality(qargs.members) = qargs.n)
        /\ qres.ok =>
              /\ qres.info.quorum_size = qargs.n - qargs.f
              /\ qres.info.f = qargs.f
              /\ qres.info.quorum_members = qargs.members

\* C28: for n = get_n_for_f(f) = 3f + 1, get_quorum_for_n(n) is 2f + 1.
ToleranceQuorum ==
    qres.kind = "tolerance" =>
        /\ qres.n = 3 * qargs.f + 1
        /\ qres.quorum = 2 * qargs.f + 1

----------------------------------------------------------------------------
(* One epoch, from DumboRound::new on, given any message of any type from  *)
(* any member; the sub-protocol the message is for answers anything its    *)
(* result type allows.  eres is the last message and what process_message  *)
(* returned for it; after a panic the epoch takes no further message.      *)

EpochInit ==
    /\ RbcIdle
    /\ RbcNetIdle
    /\ RoundIdle
    /\ AbaNetIdle
    /\ InstIdle
    /\ QuorumIdle
    /\ epoch = EpochNew(0, TestQuorum)
    /\ eres = NoEpochResult

EpochUnchanged == UNCHANGED <<rbcVars, rnetVars, abaVars, instVars, quorumVars>>

\* process_message(m, network), the sub-protocol answering sub (and fin to
\* finalize())
EpochStep(m, sub, fin) ==
    LET r == EpochProcess(epoch, m, sub, fin)
    IN  /\ epoch' = r.ep
        /\ eres' = [msg |-> m, res |-> r.res]
        /\ EpochUnchanged

EpochCe ==
    \E from \in Nodes : \E sub \in CeResults : \E fin \in CeFinalized :
        /\ eres.res # "Panic"
        /\ EpochStep(EpochMsg("CommitteeElectionMessage", 0, from), sub, fin)

EpochRbc ==
    \E owner \in Nodes : \E from \in Nodes : \E sub \in RbcResults :
        /\ eres.res # "Panic"
        /\ EpochStep(EpochMsg("ReliableBroadcast", owner, from), sub, <<>>)

EpochIndexRbc ==
    \E owner \in Nodes : \E from \in Nodes :
        /\ eres.res # "Panic"
        /\ EpochStep(EpochMsg("IndexReliableBroadcast", owner, from), "Processed", <<>>)

EpochAba ==
    \E owner \in Nodes : \E from \in Nodes : \E sub \in AbaResults :
        \E fin \in {<<>>, <<{}>>} :
            /\ eres.res # "Panic"
            /\ EpochStep(EpochMsg("AsyncBinaryAgreement", owner, from), sub, fin)

EpochNext ==
    \/ EpochCe
    \/ EpochRbc
    \/ EpochIndexRbc
    \/ EpochAba

SpecEpoch == EpochInit /\ [][EpochNext]_vars

\* The call that has just returned was the one on which the committee
\* election decided.
CommitteeJustDecided ==
    /\ eres.msg.type = "CommitteeElectionMessage"
    /\ eres.res = "MessageProcessed"
    /\ epoch.committee_election.state = "Completed"

\* C29: when the committee election has decided, the epoch has installed the
\* committee and a node state for every member of the quorum, each running
\* its value broadcast, a committee member's as CommitteeNode; local_state
\* has left WaitingForCommittee; and a ReliableBroadcast(owner, m) that the
\* owner's broadcast does not ignore is not answered MessageIgnored.
EpochCommitteeInstalled ==
    CommitteeJustDecided =>
        LET committee == epoch.committee_election.committee
            members == epoch.quorum_info.quorum_members
        IN  /\ Cardinality(committee) = epoch.quorum_info.f + 1
            /\ DOMAIN epoch.node_states = members
            /\ \A n \in DOMAIN epoch.node_states :
                  /\ epoch.node_states[n].exec = "RunningValueRBC"
                  /\ epoch.node_states[n].kind = "CommitteeNode" <=> n \in committee
            /\ epoch.local_state # "WaitingForCommittee"
            /\ \A owner \in members : \A from \in Nodes :
                  \A sub \in RbcResults \ {"MessageIgnored"} :
                     EpochProcess(epoch, EpochMsg("ReliableBroadcast", owner, from),
                                  sub, <<>>).res # "MessageIgnored"

\* Every committee member but owner has finished its agreement.
OthersDone(ep, owner) ==
    \A c \in ep.committee_election.committee \ {owner} :
        c \in DOMAIN ep.node_states /\ ep.node_states[c].exec = "Done"

\* C30: once the committee is installed, an AsyncBinaryAgreement(owner, m)
\* for a committee member whose agreement is not finished reaches that
\* agreement, and process_message answers Finalized exactly when the
\* agreement answers Decided and every other committee member's agreement
\* has finished; an answer Processed, or Decided with agreements still
\* open, gives MessageProcessed.
EpochFinalizedOnLastDecision ==
    epoch.committee_election.state = "Completed" =>
        \A owner \in epoch.committee_election.committee : \A from \in Nodes :
            (owner \in DOMAIN epoch.node_states =>
                 epoch.node_states[owner].exec # "Done") =>
            \A sub \in {"Processed", "Decided"} :
                EpochProcess(epoch, EpochMsg("AsyncBinaryAgreement", owner, from),
                             sub, <<{}>>).res
                    = IF sub = "Decided" /\ OthersDone(epoch, owner)
                      THEN "Finalized"
                      ELSE "MessageProcessed"

\* The answers the sub-protocol of a message type can give
SubResults(type) ==
    CASE type = "CommitteeElectionMessage" -> CeResults
      [] type = "ReliableBroadcast" -> RbcResults
      [] type = "AsyncBinaryAgreement" -> AbaResults
      [] OTHER -> {"Processed"}

EpochMsgTypes ==
    {"CommitteeElectionMessage", "ReliableBroadcast",
     "IndexReliableBroadcast", "AsyncBinaryAgreement"}

\* C39: the committee state only moves from RunningCE to Completed: once it
\* is Completed no message of any type changes it or the committee, and a
\* CommitteeElectionMessage is answered MessageIgnored, changes nothing in
\* the epoch and is handed to no sub-protocol, so nothing is sent; while it
\* is RunningCE only a CommitteeElectionMessage can change it, to Completed.
EpochCommitteeMonotone ==
    \A type \in EpochMsgTypes : \A owner \in Nodes : \A from \in Nodes :
        \A sub \in SubResults(type) : \A fin \in CeFinalized :
            LET m == EpochMsg(type, owner, from)
                r == EpochProcess(epoch, m, sub, fin)
                after == r.ep.committee_election
            IN  IF epoch.committee_election.state = "Completed"
                THEN /\ after = epoch.committee_election
                     /\ type = "CommitteeElectionMessage" =>
                           /\ r.res = "MessageIgnored"
                           /\ r.ep = epoch
                           /\ ~EpochCalls(epoch, m)
                ELSE /\ after.state \in {"RunningCE", "Completed"}
                     /\ after # epoch.committee_election =>
                           /\ type = "CommitteeElectionMessage"
                           /\ after.state = "Completed"

\* An epoch whose committee is complete and whose last message, a
\* CommitteeElectionMessage, was answered MessageIgnored.
EpochElectionMessageAfterCompletion ==
    /\ epoch.committee_election.state = "Completed"
    /\ eres.msg.type = "CommitteeElectionMessage"
    /\ eres.res = "MessageIgnored"

====
